---- MODULE Spec2Model ----
\* Verification model of the astrbot_plugin_bot_selfie plugin:
\*   core/config.py        ConfigLoader
\*   core/rate_limiter.py  RateLimiter
\*   core/api_client.py    ApiClient
\*   main.py               BotSelfiePlugin, BotSelfieTool, background task
\*
\* Python strings that the code inspects character by character are modelled
\* as sequences of one-character strings; Python dicts are functions whose
\* DOMAIN is the set of keys present; other dynamic values are tagged records.
EXTENDS Integers, Sequences, FiniteSets, TLC

VARIABLES
    config,     \* BotSelfiePlugin.raw_config: the raw configuration
    cfg,        \* BotSelfiePlugin.cfg: the ConfigLoader built from it
    resHist,    \* a resolution string followed by its successive mappings
    now,        \* time.time(), in whole ticks
    rate_limiter, \* BotSelfiePlugin.rate_limiter: the RateLimiter object
    calls,      \* history: every check_and_consume call made so far
    api_client, \* BotSelfiePlugin.api_client: the ApiClient object
    gen,        \* a generate_image call made on the client directly
    today_outfit,       \* BotSelfiePlugin.today_outfit ("" is None)
    last_update_date,   \* BotSelfiePlugin.last_update_date (-1 is None)
    terminated, \* whether BotSelfiePlugin.terminate has run
    inv         \* the command and tool invocations, by order of arrival

cfgVars == <<config, cfg>>
resVars == <<resHist>>
rlVars == <<now, rate_limiter, calls>>
apiVars == <<api_client, gen>>
plugVars == <<today_outfit, last_update_date, terminated, inv>>
vars == <<config, cfg, resHist, now, rate_limiter, calls, api_client, gen,
          today_outfit, last_update_date, terminated, inv>>

\* ------------------------------------------------------------------ bounds
MaxStrLen == 3      \* longest raw key string drawn for a configuration
MaxKeys == 2        \* longest raw api_keys list drawn for a configuration
MaxTokens == 4      \* most tokens concatenated into a resolution string
MaxTime == 4        \* last clock tick
MaxCalls == 4       \* most check_and_consume calls in a run of the limiter alone
MaxRequests == 3    \* largest max_requests drawn for a configuration
MaxPeriod == 3      \* largest period_seconds drawn for a configuration
MaxPosts == 2       \* most requests posted in a run of the client alone
MaxGenCalls == 3    \* most generate_image calls made on the client directly
MaxInv == 2         \* most invocations of the plugin in a run
MaxPlugTime == 1    \* last clock tick in a run of the plugin
MaxPlugPeriod == 2  \* largest period_seconds drawn for the plugin
DayLength == 1      \* clock ticks in a calendar day

\* ------------------------------------------------------------- str helpers
Whitespace == {" ", "\t"}

RECURSIVE lstrip(_)
lstrip(s) == IF s # <<>> /\ Head(s) \in Whitespace THEN lstrip(Tail(s)) ELSE s

RECURSIVE rstrip(_)
rstrip(s) ==
    IF s # <<>> /\ s[Len(s)] \in Whitespace
    THEN rstrip(SubSeq(s, 1, Len(s) - 1))
    ELSE s

\* strip() that forgets the right-hand side
strip_left_only(s) == lstrip(s)

\* str.strip()
strip(s) == rstrip(lstrip(s))

\* ------------------------------------------------------- dynamic values
\* A Python value as far as the loader distinguishes it.
NullV == [t |-> "null", s |-> <<>>, l |-> <<>>]
StrV(s) == [t |-> "str", s |-> s, l |-> <<>>]
IntV == [t |-> "int", s |-> <<>>, l |-> <<>>]
ListV(l) == [t |-> "list", s |-> <<>>, l |-> l]

\* Python truthiness of a tagged value (the int drawn is non-zero).
Truthy(v) ==
    CASE v.t = "null" -> FALSE
      [] v.t = "str" -> v.s # <<>>
      [] v.t = "list" -> v.l # <<>>
      [] OTHER -> TRUE

\* dict.get(key, default)
Get(m, k, d) == IF k \in DOMAIN m THEN m[k] ELSE d

EmptyDict == [k \in {} |-> 0]

\* A top-level section: a mapping, or something that is not a mapping.
MapS(m) == [shape |-> "map", m |-> m]
NonMapS(shape) == [shape |-> shape, m |-> EmptyDict]

\* self.config.get(section, {})
SectionGet(c, name) == IF name \in DOMAIN c THEN c[name] ELSE MapS(EmptyDict)

\* m without key k (dict.pop(k, None) on a copy)
Without(m, k) == [x \in DOMAIN m \ {k} |-> m[x]]

\* ------------------------------------------------------------ ConfigLoader
DefaultEndpoint == "doubao-seedream-4-5-251128"
DefaultApiBase == "https://ark.cn-beijing.volces.com"
DefaultSize == <<"2", "K">>
DefaultResolution == <<"1", "K">>
DefaultMaxAttempts == 3
DefaultTotalTimeout == 120
DefaultMaxRequests == 5
DefaultPeriod == 60

\* for override in provider_overrides: first dict whose __template_key is
\* 'doubao', copied, with the discriminator popped; {} when there is none.
find_doubao(po) ==
    IF po.t # "list" THEN EmptyDict
    ELSE LET hits == {i \in 1..Len(po.l) :
                        /\ po.l[i].isdict
                        /\ "__template_key" \in DOMAIN po.l[i].m
                        /\ po.l[i].m["__template_key"] = "doubao"}
         IN IF hits = {} THEN EmptyDict
            ELSE LET first == CHOOSE i \in hits : \A j \in hits : i <= j
                 IN Without(po.l[first].m, "__template_key")

\* [k.strip() for k in api_keys if isinstance(k, str) and k.strip()]
RECURSIVE clean_keys(_)
clean_keys(l) ==
    IF l = <<>> THEN <<>>
    ELSE IF Head(l).t = "str" /\ strip(Head(l).s) # <<>>
         THEN <<strip(Head(l).s)>> \o clean_keys(Tail(l))
         ELSE clean_keys(Tail(l))

\* the block with the legacy key taken as it is written
load_api_keys_unstripped(d) ==
    IF "api_keys" \in DOMAIN d
    THEN LET v == d["api_keys"]
             api_keys == IF Truthy(v) THEN v ELSE ListV(<<>>)
         IN IF api_keys.t = "list" THEN clean_keys(api_keys.l) ELSE <<>>
    ELSE IF "api_key" \in DOMAIN d /\ d["api_key"].t = "str"
         THEN IF d["api_key"].s # <<>> THEN <<d["api_key"].s>> ELSE <<>>
         ELSE <<>>

\* the "处理 API 密钥" block
load_api_keys(d) ==
    IF "api_keys" \in DOMAIN d
    THEN LET v == d["api_keys"]
             api_keys == IF Truthy(v) THEN v ELSE ListV(<<>>)
         IN IF api_keys.t = "list" THEN clean_keys(api_keys.l) ELSE <<>>
    ELSE IF "api_key" \in DOMAIN d /\ d["api_key"].t = "str"
         THEN LET key == strip(d["api_key"].s)
              IN IF key # <<>> THEN <<key>> ELSE <<>>
         ELSE <<>>

NotLoaded == [status |-> "new"]
Raised(where) == [status |-> "raised", section |-> where]

\* ConfigLoader.__init__ / _load_config: the settings object, or the
\* AttributeError of calling .get on a section that is not a dict.
load_config(c) ==
    LET api == SectionGet(c, "api_settings")
        img == SectionGet(c, "image_generation_settings")
        per == SectionGet(c, "persona_settings")
        ret == SectionGet(c, "retry_settings")
        rl == SectionGet(c, "rate_limit_settings")
        doubao == find_doubao(Get(api.m, "provider_overrides", ListV(<<>>)))
        filled == DOMAIN doubao # {}
    IN IF api.shape # "map" THEN Raised("api_settings")
       ELSE IF img.shape # "map" THEN Raised("image_generation_settings")
       ELSE IF per.shape # "map" THEN Raised("persona_settings")
       ELSE IF ret.shape # "map" THEN Raised("retry_settings")
       ELSE IF rl.shape # "map" THEN Raised("rate_limit_settings")
       ELSE [status |-> "ok",
             provider_id |-> Get(api.m, "provider_id", ""),
             api_type |-> Get(api.m, "api_type", "doubao"),
             model |-> Get(api.m, "model", ""),
             api_keys |-> load_api_keys(doubao),
             endpoint_id |-> IF filled THEN Get(doubao, "endpoint_id", DefaultEndpoint)
                             ELSE DefaultEndpoint,
             api_base |-> IF filled THEN Get(doubao, "api_base", DefaultApiBase)
                          ELSE DefaultApiBase,
             default_size |-> IF filled THEN Get(doubao, "default_size", DefaultSize)
                              ELSE DefaultSize,
             watermark |-> IF filled THEN Get(doubao, "watermark", FALSE) ELSE FALSE,
             optimize_prompt_mode |->
                 IF filled THEN Get(doubao, "optimize_prompt_mode", "standard")
                 ELSE "standard",
             resolution |-> Get(img.m, "resolution", DefaultResolution),
             aspect_ratio |-> Get(img.m, "aspect_ratio", "1:1"),
             persona_reference_image |-> Get(per.m, "persona_reference_image", <<>>),
             enable_auto_outfit |-> Get(per.m, "enable_auto_outfit", TRUE),
             max_attempts_per_key |-> Get(ret.m, "max_attempts_per_key", DefaultMaxAttempts),
             enable_smart_retry |-> Get(ret.m, "enable_smart_retry", TRUE),
             total_timeout |-> Get(ret.m, "total_timeout", DefaultTotalTimeout),
             rate_limit_enabled |-> Get(rl.m, "enabled", TRUE),
             rate_limit_max_requests |-> Get(rl.m, "max_requests", DefaultMaxRequests),
             rate_limit_period |-> Get(rl.m, "period_seconds", DefaultPeriod)]

\* --------------------------------------------- raw configurations drawn
KeyChars == {" ", "a", "b"}

RECURSIVE StringsUpTo(_)
StringsUpTo(n) ==
    IF n = 0 THEN {<<>>}
    ELSE LET shorter == StringsUpTo(n - 1)
         IN shorter \cup {Append(s, ch) : s \in shorter, ch \in KeyChars}

RawStrings == StringsUpTo(MaxStrLen)

\* elements of a raw api_keys list: strings, or something that is not one
KeyElems == {StrV(s) : s \in RawStrings} \cup {IntV}

RECURSIVE ListsUpTo(_)
ListsUpTo(n) ==
    IF n = 0 THEN {<<>>}
    ELSE LET shorter == ListsUpTo(n - 1)
         IN shorter \cup {Append(l, e) : l \in shorter, e \in KeyElems}

Dict1(k, v) == [x \in {k} |-> v]
Dict2(k1, v1, k2, v2) == [x \in {k1, k2} |-> IF x = k1 THEN v1 ELSE v2]

DictEntry(m) == [isdict |-> TRUE, m |-> m]
NonDictEntry == [isdict |-> FALSE, m |-> EmptyDict]

\* the key-bearing part of an override entry
KeyFields ==
    {EmptyDict}
    \cup {Dict1("api_keys", ListV(l)) : l \in ListsUpTo(MaxKeys)}
    \cup {Dict1("api_keys", v) : v \in {NullV, StrV(<<"a">>)}}
    \cup {Dict1("api_key", v) : v \in KeyElems \cup {NullV}}
    \cup {Dict2("api_keys", k, "api_key", StrV(<<" ", "b">>)) :
            k \in {NullV, ListV(<<>>), ListV(<<StrV(<<"a", " ">>)>>)}}

WithKey(m, k, v) == [x \in DOMAIN m \cup {k} |-> IF x = k THEN v ELSE m[x]]

Decoy == DictEntry(Dict2("__template_key", "doubao", "api_keys", ListV(<<StrV(<<"b">>)>>)))
Other == DictEntry(Dict2("__template_key", "gemini", "api_key", StrV(<<"b">>)))

\* provider_overrides lists: an optional unrelated entry, the entry of
\* interest, an optional later 'doubao' entry
OverrideLists ==
    {pre \o <<DictEntry(WithKey(kf, "__template_key", "doubao"))>> \o post :
        pre \in {<<>>, <<NonDictEntry>>, <<Other>>},
        post \in {<<>>, <<Decoy>>},
        kf \in KeyFields}
    \cup {<<>>, <<Other>>, <<NonDictEntry>>}

Section(name, v) == [x \in {name} |-> v]

\* configurations varying the override list
KeyConfigs ==
    {Section("api_settings", MapS(Dict1("provider_overrides", ListV(l)))) :
        l \in OverrideLists}
    \cup {Section("api_settings", MapS(Dict1("provider_overrides", v))) :
            v \in {NullV, StrV(<<"a">>)}}

SectionNames == {"api_settings", "image_generation_settings", "persona_settings",
                 "retry_settings", "rate_limit_settings"}

Shapes == {"absent", "null", "list", "str", "map"}

\* configurations varying the shape of each section
ShapeConfigs ==
    {[n \in {x \in SectionNames : sh[x] # "absent"} |->
        IF sh[n] = "map" THEN MapS(EmptyDict) ELSE NonMapS(sh[n])] :
     sh \in [SectionNames -> Shapes]}

RawConfigs == KeyConfigs \cup ShapeConfigs

\* ------------------------------------------------ ApiClient._map_resolution
Digits == {"0", "1", "2", "3", "4", "5", "6", "7", "8", "9"}

LowerChar(ch) == CASE ch = "X" -> "x" [] ch = "K" -> "k" [] OTHER -> ch

\* str.lower()
lower(s) == [i \in 1..Len(s) |-> LowerChar(s[i])]

\* str.replace(' ', '')
RECURSIVE remove_spaces(_)
remove_spaces(s) ==
    IF s = <<>> THEN <<>>
    ELSE IF Head(s) = " " THEN remove_spaces(Tail(s))
         ELSE <<Head(s)>> \o remove_spaces(Tail(s))

\* re.match(r"^\d{3,5}x\d{3,5}$", s)
match_wxh(s) ==
    \E i \in 1..Len(s) :
        /\ s[i] = "x"
        /\ i - 1 \in 3..5
        /\ Len(s) - i \in 3..5
        /\ \A j \in 1..Len(s) : j # i => s[j] \in Digits

R1K == <<"1", "K">>
R2K == <<"2", "K">>
R4K == <<"4", "K">>

\* the mapping without the lower-casing
map_resolution_cased(resolution, model) ==
    IF resolution = <<>> THEN R2K
    ELSE LET raw == strip(resolution)
             normalized == remove_spaces(raw)
         IN IF raw = <<>> THEN R2K
            ELSE IF match_wxh(normalized) THEN normalized
            ELSE IF normalized \in {<<"1", "k">>, <<"1", "0", "2", "4">>} THEN R1K
            ELSE IF normalized \in {<<"2", "k">>, <<"2", "0", "4", "8">>} THEN R2K
            ELSE IF normalized \in {<<"4", "k">>, <<"4", "0", "9", "6">>} THEN R4K
            ELSE R2K

\* ApiClient._map_resolution
map_resolution(resolution, model) ==
    IF resolution = <<>> THEN R2K
    ELSE LET raw == strip(resolution)
             normalized == remove_spaces(lower(raw))
         IN IF raw = <<>> THEN R2K
            ELSE IF match_wxh(normalized) THEN normalized
            ELSE IF normalized \in {<<"1", "k">>, <<"1", "0", "2", "4">>} THEN R1K
            ELSE IF normalized \in {<<"2", "k">>, <<"2", "0", "4", "8">>} THEN R2K
            ELSE IF normalized \in {<<"4", "k">>, <<"4", "0", "9", "6">>} THEN R4K
            ELSE R2K

\* resolution strings drawn: concatenations of a few tokens
Tokens == {<<" ">>, <<"\t">>, <<"x">>, <<"X">>, <<"k">>, <<"K">>, <<"1">>, <<"4">>,
           <<"0", "2", "4">>, <<"0", "9", "6">>, <<"8", "0", "0">>, <<"w">>}

RECURSIVE TokenStrings(_)
TokenStrings(n) ==
    IF n = 0 THEN {<<>>}
    ELSE LET shorter == TokenStrings(n - 1)
         IN shorter \cup {s \o tk : s \in shorter, tk \in Tokens}

ResolutionInputs == TokenStrings(MaxTokens)

\* ------------------------------------------------------------ RateLimiter
Min(seq) == CHOOSE x \in {seq[i] : i \in 1..Len(seq)} :
                \A j \in 1..Len(seq) : x <= seq[j]

\* RateLimiter.__init__
RateLimiter(max_requests, period_seconds) ==
    [max_requests |-> max_requests,
     period_seconds |-> period_seconds,
     requests |-> [k \in {} |-> <<>>]]

\* check_and_consume comparing with > instead of >=
check_and_consume_off_by_one(self, key, current_time) ==
    LET known == IF key \in DOMAIN self.requests THEN self.requests[key] ELSE <<>>
        Young(t) == current_time - t < self.period_seconds
        kept == SelectSeq(known, Young)
        pruned == [k \in DOMAIN self.requests \cup {key} |->
                      IF k = key THEN kept ELSE self.requests[k]]
    IN IF Len(kept) > self.max_requests
       THEN [self |-> [self EXCEPT !.requests = pruned],
             outcome |-> "rejected",
             wait |-> self.period_seconds - (current_time - Min(kept))]
       ELSE [self |-> [self EXCEPT !.requests = [pruned EXCEPT ![key] = Append(kept, current_time)]],
             outcome |-> "allowed", wait |-> 0]

\* check_and_consume without the pruning of the expired timestamps
check_and_consume_keep_expired(self, key, current_time) ==
    LET known == IF key \in DOMAIN self.requests THEN self.requests[key] ELSE <<>>
        pruned == [k \in DOMAIN self.requests \cup {key} |->
                      IF k = key THEN known ELSE self.requests[k]]
    IN IF Len(known) >= self.max_requests
       THEN IF known = <<>>
            THEN [self |-> [self EXCEPT !.requests = pruned],
                  outcome |-> "raised", wait |-> 0]
            ELSE [self |-> [self EXCEPT !.requests = pruned],
                  outcome |-> "rejected",
                  wait |-> self.period_seconds - (current_time - Min(known))]
       ELSE [self |-> [self EXCEPT !.requests = [pruned EXCEPT ![key] = Append(known, current_time)]],
             outcome |-> "allowed", wait |-> 0]

\* check_and_consume recording the timestamp of a rejected call too
check_and_consume_record_rejected(self, key, current_time) ==
    LET known == IF key \in DOMAIN self.requests THEN self.requests[key] ELSE <<>>
        Young(t) == current_time - t < self.period_seconds
        kept == SelectSeq(known, Young)
        pruned == [k \in DOMAIN self.requests \cup {key} |->
                      IF k = key THEN kept ELSE self.requests[k]]
        added == [pruned EXCEPT ![key] = Append(kept, current_time)]
    IN IF Len(kept) >= self.max_requests
       THEN IF kept = <<>>
            THEN [self |-> [self EXCEPT !.requests = added],
                  outcome |-> "raised", wait |-> 0]
            ELSE [self |-> [self EXCEPT !.requests = added],
                  outcome |-> "rejected",
                  wait |-> self.period_seconds - (current_time - Min(kept))]
       ELSE [self |-> [self EXCEPT !.requests = added],
             outcome |-> "allowed", wait |-> 0]

\* RateLimiter.check_and_consume: the limiter after the call and what the
\* call produced. min() of an empty list raises ValueError.
check_and_consume(self, key, current_time) ==
    LET known == IF key \in DOMAIN self.requests THEN self.requests[key] ELSE <<>>
        Young(t) == current_time - t < self.period_seconds
        kept == SelectSeq(known, Young)
        pruned == [k \in DOMAIN self.requests \cup {key} |->
                      IF k = key THEN kept ELSE self.requests[k]]
    IN IF Len(kept) >= self.max_requests
       THEN IF kept = <<>>
            THEN [self |-> [self EXCEPT !.requests = pruned],
                  outcome |-> "raised", wait |-> 0]
            ELSE [self |-> [self EXCEPT !.requests = pruned],
                  outcome |-> "rejected",
                  wait |-> self.period_seconds - (current_time - Min(kept))]
       ELSE [self |-> [self EXCEPT !.requests = [pruned EXCEPT ![key] = Append(kept, current_time)]],
             outcome |-> "allowed", wait |-> 0]

\* one entry of the call history
CallEntry(key, t, r) == [key |-> key, t |-> t, outcome |-> r.outcome, wait |-> r.wait]

Users == {"u1", "u2"}

\* the sender of the events the plugin receives (_get_user_id)
PlugUsers == {"u1"}

\* configurations varying the rate-limit section
RateConfigs ==
    {Section("rate_limit_settings",
             MapS(Dict2("max_requests", n, "period_seconds", p))) :
        n \in 0..MaxRequests, p \in 1..MaxPeriod}

\* -------------------------------------------------------------- ApiClient
\* ApiClient.__init__
ApiClient(api_keys, api_base, endpoint_id) ==
    [api_keys |-> api_keys,
     api_base |-> IF api_base = "" THEN DefaultApiBase ELSE api_base,
     endpoint_id |-> endpoint_id,
     session |-> "none"]

\* ApiClient._get_session: the client with an open session
get_session(self) ==
    IF self.session \in {"none", "closed"} THEN [self EXCEPT !.session = "open"] ELSE self

\* ApiClient.close
close(self) ==
    IF self.session = "open" THEN [self EXCEPT !.session = "closed"] ELSE self

\* a (success, text) pair returned by generate_image; the text of a failure
\* is kept as its fixed part (in English), the status code and the variable
\* part
Success(locator) == [ok |-> TRUE, kind |-> "image", status |-> 0, detail |-> locator]
Failure(kind, status, detail) == [ok |-> FALSE, kind |-> kind, status |-> status, detail |-> detail]
NoResult == [ok |-> FALSE, kind |-> "pending", status |-> 0, detail |-> ""]

\* state of a reference image path on disk
FileStates == {"missing", "readable", "unreadable"}

\* generate_image without the early return for an empty key list
generate_image_begin_no_key_check(self, reference, file, resolution) ==
    LET size == map_resolution(resolution, self.endpoint_id)
        opens == reference # "" /\ file # "missing"
    IN IF opens /\ file = "unreadable"
       THEN [self |-> self, phase |-> "raised", size |-> size, result |-> NoResult]
       ELSE [self |-> get_session(self), phase |-> "posted", size |-> size,
             result |-> NoResult]

\* generate_image up to the await on session.post: it returns early, or
\* open() raises outside the try block, or the request is posted.
\*   reference: "" (None) or a path;  file: the state of that path on disk
generate_image_begin(self, reference, file, resolution) ==
    IF self.api_keys = <<>>
    THEN [self |-> self, phase |-> "returned", size |-> <<>>,
          result |-> Failure("no API key configured", 0, "")]
    ELSE LET size == map_resolution(resolution, self.endpoint_id)
             opens == reference # "" /\ file # "missing"
         IN IF opens /\ file = "unreadable"
            THEN [self |-> self, phase |-> "raised", size |-> size, result |-> NoResult]
            ELSE [self |-> get_session(self), phase |-> "posted", size |-> size,
                  result |-> NoResult]

\* the status test that takes only 4xx and 5xx for failures
http_failed_from_400(status) == status >= 400

\* if response.status != 200
http_failed(status) == status # 200

\* what the server, or the transport, answers to the POST
Statuses == {200, 204, 500}
Bodies == {"data_url", "data_b64", "data_other", "no_data", "server error"}
Responses ==
    {[exc |-> FALSE, status |-> st, body |-> b] : st \in Statuses, b \in Bodies}
    \cup {[exc |-> TRUE, status |-> 0, body |-> "connection reset"]}

\* generate_image from the response on: the body of the "async with"
\*   saved: whether _save_base64_image could write the decoded file
generate_image_end(resp, saved) ==
    IF resp.exc THEN Failure("API request exception", 0, resp.body)
    ELSE IF http_failed(resp.status) THEN Failure("API request failed", resp.status, resp.body)
    ELSE CASE resp.body = "server error" -> Failure("API request exception", 0, "json decode")
           [] resp.body = "no_data" -> Failure("API response format error", 0, "")
           [] resp.body = "data_url" -> Success("http://x/y.png")
           [] resp.body = "data_b64" ->
                IF saved THEN Success("selfie_<ms>.png") ELSE Failure("no image generated", 0, "")
           [] OTHER -> Failure("no image generated", 0, "")

NoGen == [pc |-> "idle", reference |-> "", file |-> "missing", input |-> <<>>,
          size |-> <<>>, calls |-> 0, posts |-> 0,
          resp |-> [exc |-> FALSE, status |-> 0, body |-> ""], result |-> NoResult]

\* -------------------------------------------------------- BotSelfiePlugin
\* a response handed to the host or to the conversation
\*   ch: "yield" (command handler), "return" (tool result), "send" (event.send)
plain_result(ch, kind, n, detail) ==
    [ch |-> ch, type |-> "text", kind |-> kind, n |-> n, detail |-> detail]
image_result(ch, locator) ==
    [ch |-> ch, type |-> "image", kind |-> "image", n |-> 0, detail |-> locator]
NoMsg == [ch |-> "", type |-> "", kind |-> "", n |-> 0, detail |-> ""]

FallbackOutfit == "casual wear"
SchedulerOutfits == {"school uniform"}
\* what the life-scheduler lookup ends with: an outfit, nothing, or an
\* exception caught inside _get_today_outfit
LookupOutcomes == SchedulerOutfits \cup {"none", "error"}

\* an invocation: where it stands (pc), what it has produced (out), what
\* it holds while suspended (outfit, pending), the "today" its
\* _get_today_outfit call computed (day) and the outfit that lookup ended
\* with, fallback included (resolved)
NoInv == [kind |-> "none", pc |-> "idle", rate |-> "none",
          outfit |-> "", day |-> -1, resolved |-> "", spawned |-> FALSE,
          posts |-> 0, cause |-> "", pending |-> NoMsg, out |-> <<>>]

\* datetime.datetime.now().strftime("%Y-%m-%d")
Today == now \div DayLength

\* the "检查限流" block of both entry points
rate_check(user) ==
    IF cfg.rate_limit_enabled
    THEN LET r == check_and_consume(rate_limiter, user, now)
         IN [limiter |-> r.self, calls |-> Append(calls, CallEntry(user, now, r)),
             outcome |-> r.outcome, wait |-> r.wait]
    ELSE [limiter |-> rate_limiter, calls |-> calls, outcome |-> "skipped", wait |-> 0]

RejectText == "too many requests, wait (s)"

\* _generate_selfie up to the await inside generate_image
\*   rec: the invocation; file: the state of the reference path on disk
generate_selfie_begin(rec, outfit, file) ==
    LET persona == cfg.persona_reference_image
        reference == IF persona # <<>> /\ file # "missing" THEN persona[1] ELSE ""
        resolution == IF cfg.default_size # <<>> THEN cfg.default_size ELSE cfg.resolution
        b == generate_image_begin(api_client, reference, file, resolution)
    IN [client |-> b.self, phase |-> b.phase, result |-> b.result,
        rec |-> [rec EXCEPT !.outfit = "",
                            !.posts = @ + (IF b.phase = "posted" THEN 1 ELSE 0)]]

\* the string _generate_selfie returns, as the response it becomes
\* ("selfie generation failed" stands for the marked prefix)
deliver(ch, result) ==
    IF ~result.ok
    THEN plain_result(ch, "selfie generation failed: " \o result.kind,
                      result.status, result.detail)
    ELSE image_result(ch, result.detail)

\* selfie_command from the outfit on, up to its next await or its end
command_generate(rec, outfit, file) ==
    LET g == generate_selfie_begin(rec, outfit, file)
    IN CASE g.phase = "posted" ->
              [client |-> g.client, rec |-> [g.rec EXCEPT !.pc = "http"]]
         [] g.phase = "returned" ->
              [client |-> g.client,
               rec |-> [g.rec EXCEPT !.pc = "done",
                                     !.out = Append(@, deliver("yield", g.result))]]
         [] OTHER ->
              [client |-> g.client,
               rec |-> [g.rec EXCEPT !.pc = "raised", !.cause = "open reference image"]]

\* BotSelfieTool.call from the outfit on: create the task, return the
\* acknowledgment
tool_spawn(rec, outfit) ==
    [rec EXCEPT !.outfit = outfit, !.spawned = TRUE, !.pc = "bg_start",
                !.out = Append(@, plain_result("return", "task started", 0, outfit))]

\* selfie_command without the return after the rejection message
command_entry_no_return(rec, rc) ==
    CASE rc.outcome = "raised" ->
           [rec EXCEPT !.pc = "raised", !.cause = "check_and_consume"]
      [] rc.outcome = "rejected" ->
           [rec EXCEPT !.pc = "outfit",
                       !.out = <<plain_result("yield", RejectText, rc.wait, ""),
                                 plain_result("yield", "generating", 0, "")>>]
      [] OTHER ->
           [rec EXCEPT !.pc = "outfit",
                       !.out = <<plain_result("yield", "generating", 0, "")>>]

\* lines 447-456 of selfie_command: what the handler yields first and where
\* it stands then
\*   rc: the outcome of the rate check
command_entry(rec, rc) ==
    CASE rc.outcome = "raised" ->
           [rec EXCEPT !.pc = "raised", !.cause = "check_and_consume"]
      [] rc.outcome = "rejected" ->
           [rec EXCEPT !.pc = "done",
                       !.out = <<plain_result("yield", RejectText, rc.wait, "")>>]
      [] OTHER ->
           [rec EXCEPT !.pc = "outfit",
                       !.out = <<plain_result("yield", "generating", 0, "")>>]

\* lines 69-102 of BotSelfieTool.call up to its first await or its return
\*   hit: whether today's outfit is cached
tool_entry(rec, rc, explicit, hit) ==
    CASE rc.outcome = "raised" ->
           [rec EXCEPT !.pc = "raised", !.cause = "check_and_consume"]
      [] rc.outcome = "rejected" ->
           [rec EXCEPT !.pc = "done",
                       !.out = <<plain_result("return", RejectText, rc.wait, "")>>]
      [] explicit # "" -> tool_spawn(rec, explicit)
      [] hit -> tool_spawn(rec, today_outfit)
      [] OTHER -> [rec EXCEPT !.pc = "lookup", !.day = Today]

\* the first free invocation slot
Free(i) == inv[i].kind = "none" /\ \A j \in 1..(i - 1) : inv[j].kind # "none"

CacheHit == last_update_date = Today /\ today_outfit # ""

\* /自拍: selfie_command up to its first yield
selfie_command(user) ==
    \E i \in 1..MaxInv :
        /\ Free(i)
        /\ LET rc == rate_check(user)
               rec == [NoInv EXCEPT !.kind = "cmd", !.rate = rc.outcome]
           IN /\ rate_limiter' = rc.limiter
              /\ calls' = rc.calls
              /\ inv' = [inv EXCEPT ![i] = command_entry(rec, rc)]
        /\ UNCHANGED <<cfgVars, resVars, now, apiVars, today_outfit, last_update_date, terminated>>

\* selfie_command resumed after the "generating" notice: the outfit, from
\* the cache or by starting the lookup, then the generation
CommandOutfit(i, file) ==
    /\ inv[i].kind = "cmd" /\ inv[i].pc = "outfit"
    /\ IF cfg.enable_auto_outfit /\ ~CacheHit
       THEN /\ inv' = [inv EXCEPT ![i].pc = "lookup", ![i].day = Today]
            /\ file = "missing"
            /\ UNCHANGED api_client
       ELSE LET outfit == IF cfg.enable_auto_outfit THEN today_outfit ELSE FallbackOutfit
                c == command_generate(inv[i], outfit, file)
            IN /\ inv' = [inv EXCEPT ![i] = c.rec]
               /\ api_client' = c.client
    /\ UNCHANGED <<cfgVars, resVars, rlVars, gen, today_outfit, last_update_date, terminated>>

\* the tool call: BotSelfieTool.call up to its first await or its return
\*   explicit: the outfit argument ("" when the caller gave none)
tool_call(user, explicit) ==
    \E i \in 1..MaxInv :
        /\ Free(i)
        /\ LET rc == rate_check(user)
               rec == [NoInv EXCEPT !.kind = "tool", !.rate = rc.outcome]
           IN /\ rate_limiter' = rc.limiter
              /\ calls' = rc.calls
              /\ inv' = [inv EXCEPT ![i] = tool_entry(rec, rc, explicit, CacheHit)]
        /\ UNCHANGED <<cfgVars, resVars, now, apiVars, today_outfit, last_update_date, terminated>>

\* _get_today_outfit resumed when the life-scheduler lookup ends; the
\* caller then goes on to its next await
LookupDone(i, outcome, file) ==
    /\ inv[i].pc = "lookup"
    /\ LET found == outcome \in SchedulerOutfits
           outfit == IF found THEN outcome ELSE FallbackOutfit
           rec == [inv[i] EXCEPT !.resolved = outfit]
       IN /\ today_outfit' = IF found THEN outcome ELSE today_outfit
          /\ last_update_date' = IF found THEN inv[i].day ELSE last_update_date
          /\ IF inv[i].kind = "cmd"
             THEN LET c == command_generate(rec, outfit, file)
                  IN inv' = [inv EXCEPT ![i] = c.rec] /\ api_client' = c.client
             ELSE /\ inv' = [inv EXCEPT ![i] = tool_spawn(rec, outfit)]
                  /\ file = "missing"
                  /\ UNCHANGED api_client
    /\ UNCHANGED <<cfgVars, resVars, rlVars, gen, terminated>>

\* _background_generate_selfie from its start to its first await
BackgroundStart(i, file) ==
    /\ inv[i].pc = "bg_start"
    /\ LET g == generate_selfie_begin(inv[i], inv[i].outfit, file)
       IN /\ api_client' = g.client
          /\ inv' = [inv EXCEPT ![i] =
                CASE g.phase = "posted" -> [g.rec EXCEPT !.pc = "http"]
                  [] g.phase = "returned" ->
                       [g.rec EXCEPT !.pc = "send",
                                     !.pending = deliver("send", g.result)]
                  [] OTHER ->
                       [g.rec EXCEPT !.pc = "send_error",
                                     !.pending = plain_result("send", "selfie generation failed",
                                                              0, "open reference image")]]
    /\ UNCHANGED <<cfgVars, resVars, rlVars, gen, today_outfit, last_update_date, terminated>>

\* generate_image resumed when the POST completes; the caller delivers
HttpDone(i, resp, saved) ==
    /\ inv[i].pc = "http"
    /\ LET result == generate_image_end(resp, saved)
       IN inv' = [inv EXCEPT ![i] =
                IF inv[i].kind = "cmd"
                THEN [@ EXCEPT !.pc = "done",
                               !.out = Append(@, deliver("yield", result))]
                ELSE [@ EXCEPT !.pc = "send",
                               !.pending = deliver("send", result)]]
    /\ UNCHANGED <<cfgVars, resVars, rlVars, apiVars, today_outfit, last_update_date, terminated>>

\* the background task's await event.send(...) ends
\*   ok: whether the send succeeded
BackgroundSend(i, ok) ==
    /\ inv[i].pc = "send"
    /\ inv' = [inv EXCEPT ![i] =
           IF ok THEN [@ EXCEPT !.pc = "done", !.out = Append(@, inv[i].pending),
                                !.pending = NoMsg]
           ELSE [@ EXCEPT !.pc = "send_error",
                          !.pending = plain_result("send", "selfie generation failed",
                                                   0, "event.send")]]
    /\ UNCHANGED <<cfgVars, resVars, rlVars, apiVars, today_outfit, last_update_date, terminated>>

\* the await event.send(...) of the except block ends; a second failure
\* is logged only (cause records it)
BackgroundSendError(i, ok) ==
    /\ inv[i].pc = "send_error"
    /\ inv' = [inv EXCEPT ![i] =
           [@ EXCEPT !.pc = "done", !.pending = NoMsg,
                     !.cause = IF ok THEN @ ELSE "event.send",
                     !.out = IF ok THEN Append(@, inv[i].pending) ELSE @]]
    /\ UNCHANGED <<cfgVars, resVars, rlVars, apiVars, today_outfit, last_update_date, terminated>>

\* BotSelfiePlugin.terminate: the host unloads the plugin. session.close()
\* marks the session closed before it first suspends, so the step is atomic.
terminate ==
    /\ ~terminated
    /\ terminated' = TRUE
    /\ api_client' = close(api_client)
    /\ UNCHANGED <<cfgVars, resVars, rlVars, gen, today_outfit, last_update_date, inv>>

\* configurations drawn for the plugin
PlugConfig(keys, persona, auto, enabled, n, p) ==
    [x \in {"api_settings", "persona_settings", "rate_limit_settings"} |->
        CASE x = "api_settings" ->
               MapS(Dict1("provider_overrides",
                    ListV(<<DictEntry(Dict2("__template_key", "doubao", "api_keys", ListV(keys)))>>)))
          [] x = "persona_settings" ->
               MapS(Dict2("persona_reference_image", persona, "enable_auto_outfit", auto))
          [] OTHER ->
               MapS([y \in {"enabled", "max_requests", "period_seconds"} |->
                       CASE y = "enabled" -> enabled [] y = "max_requests" -> n
                         [] OTHER -> p])]

OneKey == <<StrV(<<" ", "a">>)>>
OnePersona == <<"persona.png">>

\* every rate limit, and around one of them: no key, no reference image, no
\* automatic outfit, no rate limiting
PlugConfigs ==
    {PlugConfig(OneKey, OnePersona, TRUE, TRUE, n, p) :
        n \in 0..(MaxInv - 1), p \in 1..MaxPlugPeriod}
    \cup {PlugConfig(<<>>, OnePersona, TRUE, TRUE, 1, 1),
          PlugConfig(OneKey, <<>>, TRUE, TRUE, 1, 1),
          PlugConfig(OneKey, OnePersona, FALSE, TRUE, 1, 1),
          PlugConfig(OneKey, OnePersona, TRUE, FALSE, 1, 1)}

\* responses drawn for the plugin's requests
PlugResponses ==
    {r \in Responses :
        \/ r.exc
        \/ r.status = 200 /\ r.body \in {"data_url", "no_data"}
        \/ r.status = 500 /\ r.body = "server error"}

\* --------------------------------------------------- ConfigLoader checks
NoConfig == [x \in {} |-> MapS(EmptyDict)]

InitCfg ==
    /\ config \in RawConfigs
    /\ cfg = NotLoaded
    /\ resHist = <<>>
    /\ now = 0
    /\ rate_limiter = RateLimiter(0, 0)
    /\ calls = <<>>
    /\ api_client = ApiClient(<<>>, "", DefaultEndpoint)
    /\ gen = NoGen
    /\ today_outfit = ""
    /\ last_update_date = -1
    /\ terminated = FALSE
    /\ inv = [i \in 1..MaxInv |-> NoInv]

\* ConfigLoader(config)
Construct ==
    /\ cfg.status = "new"
    /\ cfg' = load_config(config)
    /\ UNCHANGED <<config, resVars, rlVars, apiVars, plugVars>>

NextCfg == Construct

SpecCfg == InitCfg /\ [][NextCfg]_vars

\* ------------------------------------------------ _map_resolution checks
InitRes ==
    /\ config = NoConfig
    /\ cfg = load_config(config)
    /\ resHist \in {<<r>> : r \in ResolutionInputs}
    /\ now = 0
    /\ rate_limiter = RateLimiter(cfg.rate_limit_max_requests, cfg.rate_limit_period)
    /\ calls = <<>>
    /\ api_client = ApiClient(<<>>, "", DefaultEndpoint)
    /\ gen = NoGen
    /\ today_outfit = ""
    /\ last_update_date = -1
    /\ terminated = FALSE
    /\ inv = [i \in 1..MaxInv |-> NoInv]

\* size = self._map_resolution(resolution, self.endpoint_id), then the
\* mapping applied once more to what it returned
MapResolution ==
    /\ Len(resHist) \in 1..2
    /\ resHist' = Append(resHist, map_resolution(resHist[Len(resHist)], cfg.endpoint_id))
    /\ UNCHANGED <<cfgVars, rlVars, apiVars, plugVars>>

NextRes == MapResolution

SpecRes == InitRes /\ [][NextRes]_vars

\* ---------------------------------------------------- RateLimiter checks
\* The limiter the plugin constructor builds from the loaded settings,
\* driven directly.
InitRL ==
    /\ config \in RateConfigs
    /\ cfg = load_config(config)
    /\ resHist = <<>>
    /\ now = 0
    /\ rate_limiter = RateLimiter(cfg.rate_limit_max_requests, cfg.rate_limit_period)
    /\ calls = <<>>
    /\ api_client = ApiClient(<<>>, "", DefaultEndpoint)
    /\ gen = NoGen
    /\ today_outfit = ""
    /\ last_update_date = -1
    /\ terminated = FALSE
    /\ inv = [i \in 1..MaxInv |-> NoInv]

\* the clock advances
Tick ==
    /\ now < MaxTime
    /\ now' = now + 1
    /\ UNCHANGED <<cfgVars, resVars, rate_limiter, calls, apiVars, plugVars>>

\* rate_limiter.check_and_consume(key)
Call(key) ==
    /\ Len(calls) < MaxCalls
    /\ LET r == check_and_consume(rate_limiter, key, now)
       IN /\ rate_limiter' = r.self
          /\ calls' = Append(calls, CallEntry(key, now, r))
    /\ UNCHANGED <<cfgVars, resVars, now, apiVars, plugVars>>

NextRL == Tick \/ \E key \in Users : Call(key)

SpecRL == InitRL /\ [][NextRL]_vars

\* ------------------------------------------------------------ the plugin
\* BotSelfiePlugin.__init__
Init ==
    /\ config \in PlugConfigs
    /\ cfg = load_config(config)
    /\ resHist = <<>>
    /\ now = 0
    /\ rate_limiter = RateLimiter(cfg.rate_limit_max_requests, cfg.rate_limit_period)
    /\ calls = <<>>
    /\ api_client = ApiClient(cfg.api_keys, cfg.api_base, cfg.endpoint_id)
    /\ gen = NoGen
    /\ today_outfit = ""
    /\ last_update_date = -1
    /\ terminated = FALSE
    /\ inv = [i \in 1..MaxInv |-> NoInv]

\* the clock advances while the plugin runs
PlugTick ==
    /\ now < MaxPlugTime
    /\ now' = now + 1
    /\ UNCHANGED <<cfgVars, resVars, rate_limiter, calls, apiVars, plugVars>>

\* the host dispatches events to the handlers only while the plugin is
\* loaded; suspended handlers and background tasks go on after terminate
Next ==
    \/ PlugTick
    \/ terminate
    \/ \E user \in PlugUsers : ~terminated /\ selfie_command(user)
    \/ \E user \in PlugUsers, explicit \in {"", "swimsuit"} :
          ~terminated /\ tool_call(user, explicit)
    \/ \E i \in 1..MaxInv, file \in FileStates : CommandOutfit(i, file)
    \/ \E i \in 1..MaxInv, outcome \in LookupOutcomes, file \in FileStates :
          LookupDone(i, outcome, file)
    \/ \E i \in 1..MaxInv, file \in FileStates : BackgroundStart(i, file)
    \/ \E i \in 1..MaxInv, resp \in PlugResponses : HttpDone(i, resp, TRUE)
    \/ \E i \in 1..MaxInv, ok \in BOOLEAN : BackgroundSend(i, ok)
    \/ \E i \in 1..MaxInv, ok \in BOOLEAN : BackgroundSendError(i, ok)

Spec == Init /\ [][Next]_vars

\* ------------------------------------------------------ ApiClient checks
\* configurations varying the key list, the default size and the retry
\* settings
ApiConfigs ==
    {WithKey(Section("api_settings", MapS(Dict1("provider_overrides",
                ListV(<<DictEntry(WithKey(WithKey(kf, "default_size", sz),
                                          "__template_key", "doubao"))>>)))),
             "retry_settings",
             MapS(Dict2("max_attempts_per_key", a, "enable_smart_retry", a > 1))) :
        kf \in {Dict1("api_keys", ListV(<<>>)),
                Dict1("api_keys", ListV(<<StrV(<<"a">>)>>))},
        sz \in {DefaultSize, <<"4", "k">>, <<"8", "0", "0", "X", "8", "0", "0">>},
        a \in {1, DefaultMaxAttempts}}

\* The client the plugin constructor builds from the loaded settings,
\* driven directly.
InitApi ==
    /\ config \in ApiConfigs
    /\ cfg = load_config(config)
    /\ resHist = <<>>
    /\ now = 0
    /\ rate_limiter = RateLimiter(cfg.rate_limit_max_requests, cfg.rate_limit_period)
    /\ calls = <<>>
    /\ api_client = ApiClient(cfg.api_keys, cfg.api_base, cfg.endpoint_id)
    /\ gen = NoGen
    /\ today_outfit = ""
    /\ last_update_date = -1
    /\ terminated = FALSE
    /\ inv = [i \in 1..MaxInv |-> NoInv]

\* await api_client.generate_image(prompt, reference_image, resolution),
\* up to the POST
GenerateImage(reference, file, resolution) ==
    /\ gen.pc \in {"idle", "returned", "raised"}
    /\ gen.posts < MaxPosts
    /\ gen.calls < MaxGenCalls
    /\ LET b == generate_image_begin(api_client, reference, file, resolution)
       IN /\ api_client' = b.self
          /\ gen' = [NoGen EXCEPT !.pc = b.phase, !.reference = reference,
                                   !.file = file, !.input = resolution,
                                   !.size = b.size, !.result = b.result,
                                   !.calls = gen.calls + 1,
                                   !.posts = gen.posts + (IF b.phase = "posted" THEN 1 ELSE 0)]
    /\ UNCHANGED <<cfgVars, resVars, rlVars, plugVars>>

\* the POST completes and generate_image returns
HttpResponse(resp, saved) ==
    /\ gen.pc = "posted"
    /\ gen' = [gen EXCEPT !.pc = "returned", !.resp = resp,
                          !.result = generate_image_end(resp, saved)]
    /\ UNCHANGED <<cfgVars, resVars, rlVars, api_client, plugVars>>

NextApi ==
    \/ \E ref \in {"", "persona.png"}, file \in FileStates :
          GenerateImage(ref, file, IF cfg.default_size # <<>> THEN cfg.default_size
                                   ELSE cfg.resolution)
    \/ \E resp \in Responses, saved \in BOOLEAN : HttpResponse(resp, saved)

SpecApi == InitApi /\ [][NextApi]_vars

\* ================================================================ claims
\* s without its leading and trailing whitespace, by position
TrimmedOf(s) ==
    LET solid == {i \in 1..Len(s) : s[i] \notin Whitespace}
    IN IF solid = {} THEN <<>>
       ELSE SubSeq(s, CHOOSE i \in solid : \A j \in solid : i <= j,
                      CHOOSE i \in solid : \A j \in solid : i >= j)

IsTrimmedNonEmpty(s) ==
    /\ s # <<>>
    /\ s[1] \notin Whitespace
    /\ s[Len(s)] \notin Whitespace

NoDuplicates(l) == \A i, j \in 1..Len(l) : l[i] = l[j] => i = j

\* the override entry the loader selected from the raw configuration
MatchedOverride ==
    find_doubao(Get(SectionGet(config, "api_settings").m, "provider_overrides", ListV(<<>>)))

\* ---- C1 (as stated): with max_requests = N and period = P, the (N+1)-th
\* call for a key is rejected when made less than P after the key's first
\* call and allowed when made P or more after it.
C1_NextCallDecidedByAge ==
    \A k \in Users :
        LET OfKey(c) == c.key = k
            kc == SelectSeq(calls, OfKey)
            N == rate_limiter.max_requests
            P == rate_limiter.period_seconds
        IN Len(kc) >= N + 1 =>
              LET elapsed == kc[N + 1].t - kc[1].t
              IN /\ elapsed < P => kc[N + 1].outcome = "rejected"
                 /\ elapsed >= P => kc[N + 1].outcome = "allowed"

\* ---- C3 (as stated): a limiter with max_requests = 0 rejects every call
\* (allowed = false with a message) and never records a timestamp.
C3_ZeroAlwaysRejects ==
    rate_limiter.max_requests = 0 =>
        /\ \A i \in 1..Len(calls) : calls[i].outcome = "rejected"
        /\ \A k \in DOMAIN rate_limiter.requests : rate_limiter.requests[k] = <<>>

\* ---- C4 (as stated): constructing ConfigLoader never fails; a section
\* that is missing or not a mapping yields its defaults.
C4_ConstructNeverFails ==
    cfg.status # "new" =>
        /\ cfg.status = "ok"
        /\ SectionGet(config, "rate_limit_settings").shape # "map" =>
              /\ cfg.rate_limit_max_requests = 5
              /\ cfg.rate_limit_period = 60
              /\ cfg.rate_limit_enabled
        /\ SectionGet(config, "api_settings").shape # "map" => cfg.api_keys = <<>>

\* ---- C5 (as stated): api_keys has no duplicates and every element is a
\* non-empty string without leading or trailing whitespace.
C5_KeysDedupTrimmed ==
    cfg.status = "ok" =>
        /\ NoDuplicates(cfg.api_keys)
        /\ \A i \in 1..Len(cfg.api_keys) : IsTrimmedNonEmpty(cfg.api_keys[i])

\* ---- C5 (amended): every element of api_keys is a non-empty string
\* without leading or trailing whitespace (duplicates are kept).
C5_KeysTrimmed ==
    cfg.status = "ok" =>
        \A i \in 1..Len(cfg.api_keys) : IsTrimmedNonEmpty(cfg.api_keys[i])

\* a list with untrimmed elements was loaded into two keys
C5_Witness ==
    /\ cfg.status = "ok"
    /\ Len(cfg.api_keys) = 2
    /\ "api_keys" \in DOMAIN MatchedOverride
    /\ MatchedOverride["api_keys"].t = "list"
    /\ \E i \in 1..Len(MatchedOverride["api_keys"].l) :
          LET e == MatchedOverride["api_keys"].l[i]
          IN e.t = "str" /\ e.s # <<>> /\ e.s[1] = " " /\ e.s[Len(e.s)] = " "

\* ---- C6: key selection in the matched override. A present api_keys list
\* gives its string elements trimmed, empty ones dropped, in order; an
\* absent list with a string api_key gives that key trimmed (or nothing when
\* it trims to empty); neither gives the empty list.
C6_KeySelection ==
    cfg.status = "ok" =>
        LET d == MatchedOverride
            Keeps(e) == e.t = "str" /\ \E i \in 1..Len(e.s) : e.s[i] \notin Whitespace
        IN /\ ("api_keys" \in DOMAIN d /\ d["api_keys"].t = "list") =>
                LET kept == SelectSeq(d["api_keys"].l, Keeps)
                IN cfg.api_keys = [i \in 1..Len(kept) |-> TrimmedOf(kept[i].s)]
           /\ ("api_keys" \notin DOMAIN d /\ "api_key" \in DOMAIN d
                  /\ d["api_key"].t = "str") =>
                cfg.api_keys = IF TrimmedOf(d["api_key"].s) = <<>> THEN <<>>
                               ELSE <<TrimmedOf(d["api_key"].s)>>
           /\ ("api_keys" \notin DOMAIN d /\ "api_key" \notin DOMAIN d) =>
                cfg.api_keys = <<>>

\* the legacy scalar was used and trimmed
C6_Witness ==
    /\ cfg.status = "ok"
    /\ "api_keys" \notin DOMAIN MatchedOverride
    /\ "api_key" \in DOMAIN MatchedOverride
    /\ MatchedOverride["api_key"] = StrV(<<" ", "b", " ">>)
    /\ cfg.api_keys = << <<"b">> >>

\* ---- C7
UpperChar(ch) == CASE ch = "x" -> "X" [] ch = "k" -> "K" [] OTHER -> ch
Upper(s) == [i \in 1..Len(s) |-> UpperChar(s[i])]
NotWs(ch) == ch \notin Whitespace
NotSpace(ch) == ch # " "
AllDigits(s) == \A i \in 1..Len(s) : s[i] \in Digits

IsWidthXHeight(s) ==
    \E w \in 3..5 :
        /\ Len(s) - w - 1 \in 3..5
        /\ s[w + 1] = "x"
        /\ AllDigits(SubSeq(s, 1, w))
        /\ AllDigits(SubSeq(s, w + 2, Len(s)))

\* what the mapping must return for an input whose canonical form is c
ExpectedSize(c) ==
    CASE IsWidthXHeight(c) -> c
      [] c \in {<<"1", "k">>, <<"1", "0", "2", "4">>} -> R1K
      [] c \in {<<"4", "k">>, <<"4", "0", "9", "6">>} -> R4K
      [] OTHER -> R2K

ResolutionCommon ==
    /\ resHist[2] \in {R1K, R2K, R4K} \/ IsWidthXHeight(resHist[2])
    /\ resHist[1] = <<>> => resHist[2] = R2K
    /\ resHist[2] = map_resolution(Upper(resHist[1]), cfg.endpoint_id)
    /\ resHist[2] = map_resolution(lower(resHist[1]), cfg.endpoint_id)
    /\ Len(resHist) >= 3 => resHist[3] = resHist[2]

\* ---- C7 (as stated): the mapping is total, defaults to "2K", ignores
\* case and ignores whitespace, and maps its own result to itself.
C7_ResolutionAnyWhitespace ==
    Len(resHist) >= 2 =>
        /\ ResolutionCommon
        /\ resHist[2] = ExpectedSize(lower(SelectSeq(resHist[1], NotWs)))

\* ---- C7 (amended): as stated, except that the whitespace ignored is the
\* leading and trailing whitespace and the space characters inside; any
\* other whitespace inside (a tab) makes the input unrecognized.
C7_ResolutionSpaces ==
    Len(resHist) >= 2 =>
        /\ ResolutionCommon
        /\ resHist[2] = ExpectedSize(lower(SelectSeq(TrimmedOf(resHist[1]), NotSpace)))

\* a spaced, upper-case token was recognized and mapped again
C7_Witness ==
    /\ Len(resHist) = 3
    /\ resHist[1] = <<"\t", "4", " ", "K">>
    /\ resHist[2] = R4K
    /\ resHist[3] = R4K

\* ---- C2: in every interleaving of command and tool invocations, for
\* every key and every instant T, the calls accepted for the key in the
\* window of period seconds ending at T number at most max_requests.
C2_WindowNeverExceeded ==
    \A k \in Users, T \in 0..now :
        Cardinality({j \in 1..Len(calls) :
                        /\ calls[j].key = k
                        /\ calls[j].outcome = "allowed"
                        /\ calls[j].t <= T
                        /\ T - calls[j].t < rate_limiter.period_seconds})
            <= rate_limiter.max_requests

\* a command is rejected while the background task of an accepted tool
\* call of the same user is waiting for the image
C2_Witness ==
    /\ Len(calls) = 2
    /\ calls[1].outcome = "allowed" /\ calls[2].outcome = "rejected"
    /\ calls[1].key = calls[2].key
    /\ inv[1].kind = "tool" /\ inv[1].pc = "http"
    /\ inv[2].kind = "cmd"

\* ---- C8 (as stated): generate_image returns the status-code failure,
\* carrying status and body, exactly for the non-2xx statuses.
C8_FailureIffNot2xx ==
    (gen.pc = "returned" /\ gen.posts > 0 /\ ~gen.resp.exc) =>
        IF gen.resp.status \in 200..299
        THEN gen.result.kind # "API request failed"
        ELSE gen.result = Failure("API request failed", gen.resp.status, gen.resp.body)

\* ---- C8 (amended): generate_image returns the status-code failure,
\* carrying status and body, exactly for the statuses other than 200; a
\* 2xx status other than 200 is a failure too.
C8_FailureIffNot200 ==
    (gen.pc = "returned" /\ gen.posts > 0 /\ ~gen.resp.exc) =>
        IF gen.resp.status = 200
        THEN gen.result.kind # "API request failed"
        ELSE gen.result = Failure("API request failed", gen.resp.status, gen.resp.body)

\* a 500 answer with body "server error" was turned into the failure
C8_Witness ==
    /\ gen.pc = "returned"
    /\ gen.resp = [exc |-> FALSE, status |-> 500, body |-> "server error"]
    /\ gen.result = Failure("API request failed", 500, "server error")

\* ---- C9 (as stated): none of the failures of the selfie flow reaches the
\* host as an exception raised out of a handler.
FlowFailures == {"missing API keys", "open reference image", "session",
                 "transport", "HTTP error", "malformed response",
                 "outfit lookup", "event.send"}

C9_NoFailureEscapes ==
    \A i \in 1..MaxInv : inv[i].pc = "raised" => inv[i].cause \notin FlowFailures

\* ---- C10: an invocation whose rate check rejected has ended, with the
\* rejection message as its only output; it resolved no outfit, created no
\* background task and posted no request.
C10_RejectionIsTerminal ==
    \A i \in 1..MaxInv :
        inv[i].rate = "rejected" =>
            /\ inv[i].pc = "done"
            /\ Len(inv[i].out) = 1
            /\ inv[i].out[1].type = "text" /\ inv[i].out[1].kind = RejectText
            /\ inv[i].out[1].ch = (IF inv[i].kind = "cmd" THEN "yield" ELSE "return")
            /\ inv[i].outfit = "" /\ inv[i].day = -1
            /\ ~inv[i].spawned
            /\ inv[i].posts = 0
            /\ inv[i].pending = NoMsg

\* a tool call was rejected after an accepted command of the same user
C10_Witness ==
    /\ inv[1].kind = "cmd" /\ inv[1].rate = "allowed"
    /\ inv[2].kind = "tool" /\ inv[2].rate = "rejected"
    /\ inv[2].out = <<plain_result("return", RejectText, 1, "")>>

\* ---- C11 (as stated): a tool invocation that passed the rate check is
\* never suspended on a collaborator before it has returned its
\* acknowledgment, and once its background task has ended the conversation
\* has received exactly one terminal message from it (none only when the
\* sends themselves failed): an image or a marked error text.
IsSend(m) == m.ch = "send"

C11_AckBeforeAnyWait ==
    \A i \in 1..MaxInv :
        (inv[i].kind = "tool" /\ inv[i].rate \in {"allowed", "skipped"}) =>
            /\ inv[i].pc # "lookup"
            /\ inv[i].out # <<>>
            /\ inv[i].out[1].ch = "return" /\ inv[i].out[1].kind = "task started"
            /\ inv[i].spawned
            /\ inv[i].pc = "done" =>
                  LET sends == SelectSeq(inv[i].out, IsSend)
                  IN IF inv[i].cause = "event.send" THEN sends = <<>>
                     ELSE /\ Len(sends) = 1
                          /\ Len(inv[i].out) = 2
                          /\ sends[1].type \in {"image", "text"}
                          /\ sends[1].type = "text" =>
                                sends[1].kind \in
                                    {"selfie generation failed",
                                     "selfie generation failed: no API key configured",
                                     "selfie generation failed: API request failed",
                                     "selfie generation failed: API request exception",
                                     "selfie generation failed: API response format error",
                                     "selfie generation failed: no image generated"}

\* ---- C12: after every check_and_consume(key) made at time t, every
\* timestamp retained for key is younger than the period (t - timestamp <
\* period), and after an allowed call at most max_requests are retained.
C12_RateWindow ==
    \A k \in Users :
        LET OfKey(c) == c.key = k
            kc == SelectSeq(calls, OfKey)
        IN kc # <<>> =>
              LET last == kc[Len(kc)]
                  kept == rate_limiter.requests[k]
              IN /\ k \in DOMAIN rate_limiter.requests
                 /\ \A j \in 1..Len(kept) :
                       last.t - kept[j] < rate_limiter.period_seconds
                 /\ last.outcome = "allowed" =>
                       /\ Len(kept) <= rate_limiter.max_requests
                       /\ kept[Len(kept)] = last.t

\* an allowed third call dropped the expired first timestamp and filled the
\* window of two
C12_Witness ==
    /\ rate_limiter.max_requests = 2 /\ rate_limiter.period_seconds = 2
    /\ Len(calls) = 3
    /\ \A j \in 1..3 : calls[j].key = "u1" /\ calls[j].outcome = "allowed"
    /\ calls[1].t = 0 /\ calls[3].t = 2
    /\ rate_limiter.requests["u1"] = <<1, 2>>

\* ---- C13 (as stated): the client's session is created by the first
\* generate_image call that reaches the POST, and once terminate has
\* completed no session is open, whatever handlers and background tasks
\* were in flight when it ran.
C13_NoSessionAfterTerminate ==
    /\ (\A i \in 1..MaxInv : inv[i].posts = 0) => api_client.session = "none"
    /\ terminated => api_client.session # "open"

\* ---- C14 (as stated): when the outfit lookup of an invocation ends, with
\* the scheduler's outfit or with the fallback, the value and the day of
\* the lookup are in the cache; and no invocation starts a lookup on a day
\* for which an earlier invocation has already resolved an outfit.
C14_ResolvedOutfitCached ==
    [][/\ \A i \in 1..MaxInv :
            (inv[i].pc = "lookup" /\ inv'[i].pc # "lookup") =>
                /\ last_update_date' = inv[i].day
                /\ today_outfit' = inv'[i].resolved
       /\ \A i \in 1..MaxInv :
            (inv[i].pc # "lookup" /\ inv'[i].pc = "lookup") =>
                \A j \in 1..MaxInv :
                    ~(inv[j].resolved # "" /\ inv[j].day = inv'[i].day)]_vars

\* ---- C15: the POSTs issued never outnumber the generate_image calls
\* made, one at most being in flight or answered per call, whatever the
\* answer and the retry settings; a client without API keys issues none
\* and every call on it returns the missing-key failure.
C15_OnePostPerCall ==
    /\ gen.posts <= gen.calls
    /\ gen.pc = "posted" => gen.posts >= 1
    /\ api_client.api_keys = <<>> =>
          /\ gen.posts = 0
          /\ api_client.session = "none"
          /\ gen.calls > 0 =>
                /\ gen.pc = "returned"
                /\ gen.result = Failure("no API key configured", 0, "")

\* with three attempts per key configured, a second call was needed for a
\* second POST after the first one was answered with a 500
C15_Witness ==
    /\ cfg.max_attempts_per_key = 3 /\ cfg.enable_smart_retry
    /\ gen.calls = 2 /\ gen.posts = 2
    /\ gen.pc = "returned"
    /\ gen.resp.status = 500
    /\ gen.result.kind = "API request failed"

\* ---- C16: a call check_and_consume(k) leaves the list of every other
\* key as it was; a call that is not allowed adds no timestamp, leaving
\* k's list equal to its previous content without the expired entries, so
\* that at every later time a call for k is decided as it would have been
\* without the rejected call.
ListOf(rl, k) == IF k \in DOMAIN rl.requests THEN rl.requests[k] ELSE <<>>

C16_CheckAndConsumeFrame ==
    [][Len(calls') = Len(calls) + 1 =>
          LET c == calls'[Len(calls')]
              Young(t) == c.t - t < rate_limiter.period_seconds
          IN /\ DOMAIN rate_limiter'.requests = DOMAIN rate_limiter.requests \cup {c.key}
             /\ \A k \in DOMAIN rate_limiter.requests \ {c.key} :
                   rate_limiter'.requests[k] = rate_limiter.requests[k]
             /\ rate_limiter'.max_requests = rate_limiter.max_requests
             /\ rate_limiter'.period_seconds = rate_limiter.period_seconds
             /\ c.outcome # "allowed" =>
                   /\ rate_limiter'.requests[c.key]
                        = SelectSeq(ListOf(rate_limiter, c.key), Young)
                   /\ \A t \in c.t..(MaxTime + MaxPeriod) :
                         check_and_consume(rate_limiter', c.key, t).outcome
                           = check_and_consume(rate_limiter, c.key, t).outcome]_vars

\* with one request per two ticks, u1 was rejected at tick 1 while u2 held a
\* timestamp, and allowed again at tick 2
C16_Witness ==
    /\ rate_limiter.max_requests = 1 /\ rate_limiter.period_seconds = 2
    /\ Len(calls) = 4
    /\ calls[1].key = "u1" /\ calls[1].t = 0 /\ calls[1].outcome = "allowed"
    /\ calls[2].key = "u2" /\ calls[2].t = 0 /\ calls[2].outcome = "allowed"
    /\ calls[3].key = "u1" /\ calls[3].t = 1 /\ calls[3].outcome = "rejected"
    /\ calls[4].key = "u1" /\ calls[4].t = 2 /\ calls[4].outcome = "allowed"
    /\ rate_limiter.requests["u2"] = <<0>>
    /\ rate_limiter.requests["u1"] = <<2>>

====
